---- MODULE Spec2Model ----
(***************************************************************************)
(* FullDuplexHfpLoopback (OboeTester): a full-duplex callback that plays a *)
(* loaded clip into the output stream, records the input stream and feeds  *)
(* one peak detector per input channel.                                    *)
(*                                                                         *)
(* Samples are floats in the source; the code only copies and compares     *)
(* them, so they are modelled as integers in tenths (0.5 is 5).            *)
(* In Spec every operation of the class is one action: the operations are  *)
(* taken whole, as the control thread and the audio thread run them when   *)
(* they do not overlap.                                                    *)
(* In SpecRace the control thread runs loadAudioData statement by          *)
(* statement while the audio thread runs onBothStreamsReadyFloat one loop  *)
(* iteration at a time. The class has no lock and the clip members are     *)
(* plain (non-atomic) fields, so every such interleaving can happen; finer *)
(* interleavings (inside one statement or one iteration) exist as well and *)
(* are not explored, so SpecRace shows a subset of the racy behaviours.    *)
(***************************************************************************)
EXTENDS Integers, Sequences, FiniteSets, TLC

(* ------------------------------ bounds --------------------------------- *)
MaxFrames == 2          \* frames of a loaded clip: 1..MaxFrames
MaxOutputFrames == 5    \* numOutputFrames of one callback: 0..MaxOutputFrames
MaxInputFrames == 1     \* numInputFrames of one callback: 0..MaxInputFrames
MaxTotalOut == 5        \* cap of mPlayedFrameCount and of the frames requested of one clip
MaxTotalIn == 1         \* cap of mRecordedFrameCount
MaxRaceOutputFrames == 2    \* numOutputFrames of one callback in SpecRace
MaxRacePlayed == 3      \* cap of mPlayedFrameCount in SpecRace

(* -------------------------- program constants -------------------------- *)
SECONDS_TO_RECORD_HFP == 300
DefaultSampleRate == 48000   \* initial mPlaybackSampleRate
NotStarted == -1        \* getPeakLevel before start(): -1.0
OutOfRange == -2        \* getPeakLevel with a bad index: -2.0
Continue == 0           \* oboe::DataCallbackResult::Continue
StreamSampleRates == {DefaultSampleRate}    \* negotiated stream sample rates
\* Negotiated <<output channel count, input channel count>> of the two streams.
StreamChannelCounts == {<<2, 2>>, <<3, 1>>}

\* What a read outside mPlaybackBuffer yields in this model. No behaviour of
\* the whole-operation specification reaches such a read.
Garbage == -999

VARIABLES
    mPlaybackBuffer,        \* std::vector<float>: interleaved samples
    mPlaybackPosition,      \* the cursor, in frames
    mPlaybackNumFrames,
    mPlaybackChannelCount,
    mPlaybackSampleRate,
    mLoopPlayback,
    mPlayedFrameCount,
    mRecordedFrameCount,
    mPlayedRecording,       \* unique_ptr<MultiChannelRecording>
    mRecordedRecording,
    mNumInputChannels,
    mPeakDetectors,         \* unique_ptr<PeakDetector[]>
    outputChannelCount,     \* getOutputStream()->getChannelCount()
    inputChannelCount,      \* getInputStream()->getChannelCount()
    outputSampleRate,       \* getOutputStream()->getSampleRate()
    inputSampleRate,        \* getInputStream()->getSampleRate()
    call,                   \* the last operation: its name, the index asked of
                            \* getPeakLevel (0 for the others) and what it returned
    outputData,             \* the output block the last operation filled (empty unless a callback)
    outputSrc,              \* per frame of outputData: the cursor it was read at, -1 if silence
    started,                \* start() has been called at least once
    totalIn,                \* sum of numInputFrames since the last start()
    framesSinceLoad,        \* output frames requested of the clip since it was loaded
    loader,                 \* control thread inside loadAudioData: the statement it is
                            \* at, its arguments and the clip it found on entry
    callback,               \* audio thread inside onBothStreamsReadyFloat: where it
                            \* is, numOutputFrames and numInputFrames
    lastRead,               \* the lowest and highest mPlaybackBuffer index the last
                            \* frame copy read, and the buffer's size at that time
    session                 \* how those frames were played: "fresh" (none yet), "looping"
                            \* (loop flag set in every callback), "oneshot" (clear in every
                            \* callback), "mixed" (both, or start() reset the cursor midway)

progVars == <<mPlaybackBuffer, mPlaybackPosition, mPlaybackNumFrames,
              mPlaybackChannelCount, mPlaybackSampleRate, mLoopPlayback,
              mPlayedFrameCount, mRecordedFrameCount, mPlayedRecording,
              mRecordedRecording, mNumInputChannels, mPeakDetectors>>
streamVars == <<outputChannelCount, inputChannelCount, outputSampleRate, inputSampleRate>>
obsVars == <<call, outputData, outputSrc, started, totalIn, framesSinceLoad, session>>
raceVars == <<loader, callback, lastRead>>
vars == <<progVars, streamVars, obsVars, raceVars>>

(* ------------------------------ helpers -------------------------------- *)
Abs(x) == IF x < 0 THEN -x ELSE x
Min(a, b) == IF a <= b THEN a ELSE b

\* A frame of d zero samples (what memset writes).
SilenceFrame(d) == [c \in 1..d |-> 0]

\* An absent (nullptr) and a fresh MultiChannelRecording.
\* The stored samples are not modelled, only how many frames are stored: no
\* operation of FullDuplexHfpLoopback reads a recording back.
NullRecording == [alloc |-> FALSE, channelCount |-> 0, maxFrames |-> 0, frames |-> 0]
NewRecording(channels, maxFrames) ==
    [alloc |-> TRUE, channelCount |-> channels, maxFrames |-> maxFrames, frames |-> 0]

\* MultiChannelRecording::write(buffer, 1): append one frame while below capacity.
RecordingWrite(rec, frame) ==
    IF rec.frames < rec.maxFrames
    THEN [rec EXCEPT !.frames = @ + 1]
    ELSE rec

\* PeakDetector::process(sample): take |sample| if larger, else decay toward 0.
PeakProcess(level, sample) ==
    IF Abs(sample) > level THEN Abs(sample) ELSE level \div 2

NullDetectors == [alloc |-> FALSE, levels |-> <<>>]
NewDetectors_OneShort(n) == [alloc |-> TRUE, levels |-> [c \in 1..(n - 1) |-> 0]]
NewDetectors(n) == [alloc |-> TRUE, levels |-> [c \in 1..n |-> 0]]

(* --------------------------- loadAudioData ----------------------------- *)
\* The argument check of loadAudioData.
InvalidLoadArgs_NoChannelCheck(audioData, numFrames, channelCount) ==
    audioData.null \/ numFrames <= 0
InvalidLoadArgs(audioData, numFrames, channelCount) ==
    audioData.null \/ numFrames <= 0 \/ channelCount <= 0

\* resize(totalSamples) then memcpy of totalSamples floats from audioData.
LoadedBuffer(audioData, totalSamples) ==
    [i \in 1..(IF totalSamples > 0 THEN totalSamples ELSE 0) |->
        IF i <= Len(audioData.samples) THEN audioData.samples[i] ELSE Garbage]

\* The cursor a successful loadAudioData leaves.
CursorAfterLoad_Kept(pos) == pos
CursorAfterLoad(pos) == 0

\* The clips offered to loadAudioData. A clip of kind k has k + 1 channels and
\* holds the ramp 10(k+1)+1, 10(k+1)+2, ...: no two of its samples are equal,
\* no sample is 0, and clips of different kinds share no sample.
ClipKinds == {0, 1}
ClipChannels(kind) == kind + 1
ClipSamples(kind, n) == [i \in 1..n |-> 10 * (kind + 1) + i]
ClipRate(kind) == IF kind = 0 THEN DefaultSampleRate ELSE 16000

NullData == [null |-> TRUE, samples |-> <<>>]
ValidLoads ==
    { [audioData |-> [null |-> FALSE, samples |-> ClipSamples(k, f * ClipChannels(k))],
       numFrames |-> f, channelCount |-> ClipChannels(k), sampleRate |-> ClipRate(k)] :
         k \in ClipKinds, f \in 1..MaxFrames }
InvalidLoads ==
    { [audioData |-> NullData, numFrames |-> 1, channelCount |-> 1,
       sampleRate |-> 16000] }
    \cup { [audioData |-> [null |-> FALSE, samples |-> ClipSamples(0, 1)],
            numFrames |-> fc[1], channelCount |-> fc[2], sampleRate |-> 16000] :
              fc \in {<<0, 1>>, <<-1, 1>>, <<1, 0>>, <<1, -1>>} }
LoadInputs == ValidLoads \cup InvalidLoads

\* loadAudioData, as it would be if it also reset the counters the way start() does.
LoadAudioData_ResetsCounters(in) ==
    /\ call' = [op |-> "loadAudioData", arg |-> 0,
                ret |-> IF InvalidLoadArgs(in.audioData, in.numFrames, in.channelCount)
                        THEN -1 ELSE 0]
    /\ IF InvalidLoadArgs(in.audioData, in.numFrames, in.channelCount)
       THEN UNCHANGED <<progVars, framesSinceLoad, session>>
       ELSE /\ mPlaybackBuffer' = LoadedBuffer(in.audioData, in.numFrames * in.channelCount)
            /\ mPlaybackNumFrames' = in.numFrames
            /\ mPlaybackChannelCount' = in.channelCount
            /\ mPlaybackSampleRate' = in.sampleRate
            /\ mPlaybackPosition' = CursorAfterLoad(mPlaybackPosition)
            /\ framesSinceLoad' = 0
            /\ session' = "fresh"
            /\ mPlayedFrameCount' = 0
            /\ mRecordedFrameCount' = 0
            /\ UNCHANGED <<mLoopPlayback, mPlayedRecording, mRecordedRecording,
                           mNumInputChannels, mPeakDetectors>>
    /\ outputData' = <<>>
    /\ outputSrc' = <<>>
    /\ UNCHANGED <<streamVars, started, totalIn>>
\* loadAudioData, as it would be if it also re-enabled looping.
LoadAudioData_ReenablesLoop(in) ==
    /\ call' = [op |-> "loadAudioData", arg |-> 0,
                ret |-> IF InvalidLoadArgs(in.audioData, in.numFrames, in.channelCount)
                        THEN -1 ELSE 0]
    /\ IF InvalidLoadArgs(in.audioData, in.numFrames, in.channelCount)
       THEN UNCHANGED <<progVars, framesSinceLoad, session>>
       ELSE /\ mPlaybackBuffer' = LoadedBuffer(in.audioData, in.numFrames * in.channelCount)
            /\ mPlaybackNumFrames' = in.numFrames
            /\ mPlaybackChannelCount' = in.channelCount
            /\ mPlaybackSampleRate' = in.sampleRate
            /\ mPlaybackPosition' = CursorAfterLoad(mPlaybackPosition)
            /\ framesSinceLoad' = 0
            /\ session' = "fresh"
            /\ mLoopPlayback' = TRUE
            /\ UNCHANGED <<mPlayedFrameCount, mRecordedFrameCount,
                           mPlayedRecording, mRecordedRecording, mNumInputChannels,
                           mPeakDetectors>>
    /\ outputData' = <<>>
    /\ outputSrc' = <<>>
    /\ UNCHANGED <<streamVars, started, totalIn>>
LoadAudioData(in) ==
    /\ call' = [op |-> "loadAudioData", arg |-> 0,
                ret |-> IF InvalidLoadArgs(in.audioData, in.numFrames, in.channelCount)
                        THEN -1 ELSE 0]
    /\ IF InvalidLoadArgs(in.audioData, in.numFrames, in.channelCount)
       THEN UNCHANGED <<progVars, framesSinceLoad, session>>
       ELSE /\ mPlaybackBuffer' = LoadedBuffer(in.audioData, in.numFrames * in.channelCount)
            /\ mPlaybackNumFrames' = in.numFrames
            /\ mPlaybackChannelCount' = in.channelCount
            /\ mPlaybackSampleRate' = in.sampleRate
            /\ mPlaybackPosition' = CursorAfterLoad(mPlaybackPosition)
            /\ framesSinceLoad' = 0
            /\ session' = "fresh"
            /\ UNCHANGED <<mLoopPlayback, mPlayedFrameCount, mRecordedFrameCount,
                           mPlayedRecording, mRecordedRecording, mNumInputChannels,
                           mPeakDetectors>>
    /\ outputData' = <<>>
    /\ outputSrc' = <<>>
    /\ UNCHANGED <<streamVars, started, totalIn>>

(* --------------------------- setLoopPlayback --------------------------- *)
SetLoopPlayback_RewindsCursor(loop) ==
    /\ mLoopPlayback' = loop
    /\ mPlaybackPosition' = 0
    /\ call' = [op |-> "setLoopPlayback", arg |-> 0, ret |-> 0]
    /\ UNCHANGED <<mPlaybackBuffer, mPlaybackNumFrames,
                   mPlaybackChannelCount, mPlaybackSampleRate, mPlayedFrameCount,
                   mRecordedFrameCount, mPlayedRecording, mRecordedRecording,
                   mNumInputChannels, mPeakDetectors>>
    /\ outputData' = <<>>
    /\ outputSrc' = <<>>
    /\ UNCHANGED <<streamVars, started, totalIn, framesSinceLoad, session>>
SetLoopPlayback(loop) ==
    /\ mLoopPlayback' = loop
    /\ call' = [op |-> "setLoopPlayback", arg |-> 0, ret |-> 0]
    /\ UNCHANGED <<mPlaybackBuffer, mPlaybackPosition, mPlaybackNumFrames,
                   mPlaybackChannelCount, mPlaybackSampleRate, mPlayedFrameCount,
                   mRecordedFrameCount, mPlayedRecording, mRecordedRecording,
                   mNumInputChannels, mPeakDetectors>>
    /\ outputData' = <<>>
    /\ outputSrc' = <<>>
    /\ UNCHANGED <<streamVars, started, totalIn, framesSinceLoad, session>>

(* ------------------------------- start --------------------------------- *)
\* start(), as it would be if it did not rewind the cursor.
Start_KeepsCursor ==
    /\ mPlayedFrameCount' = 0
    /\ mRecordedFrameCount' = 0
    /\ mPlayedRecording' =
         NewRecording(outputChannelCount, SECONDS_TO_RECORD_HFP * outputSampleRate)
    /\ mRecordedRecording' =
         NewRecording(inputChannelCount, SECONDS_TO_RECORD_HFP * inputSampleRate)
    /\ mNumInputChannels' = inputChannelCount
    /\ mPeakDetectors' = NewDetectors(inputChannelCount)
    /\ call' = [op |-> "start", arg |-> 0, ret |-> 0]
    /\ started' = TRUE
    /\ totalIn' = 0
    /\ session' = IF framesSinceLoad > 0 THEN "mixed" ELSE session
    /\ UNCHANGED <<mPlaybackBuffer, mPlaybackPosition, mPlaybackNumFrames, mPlaybackChannelCount,
                   mPlaybackSampleRate, mLoopPlayback>>
    /\ outputData' = <<>>
    /\ outputSrc' = <<>>
    /\ UNCHANGED <<streamVars, framesSinceLoad>>

Start ==
    /\ mPlaybackPosition' = 0
    /\ mPlayedFrameCount' = 0
    /\ mRecordedFrameCount' = 0
    /\ mPlayedRecording' =
         NewRecording(outputChannelCount, SECONDS_TO_RECORD_HFP * outputSampleRate)
    /\ mRecordedRecording' =
         NewRecording(inputChannelCount, SECONDS_TO_RECORD_HFP * inputSampleRate)
    /\ mNumInputChannels' = inputChannelCount
    /\ mPeakDetectors' = NewDetectors(inputChannelCount)
    /\ call' = [op |-> "start", arg |-> 0, ret |-> 0]
    /\ started' = TRUE
    /\ totalIn' = 0
    /\ session' = IF framesSinceLoad > 0 THEN "mixed" ELSE session
    /\ UNCHANGED <<mPlaybackBuffer, mPlaybackNumFrames, mPlaybackChannelCount,
                   mPlaybackSampleRate, mLoopPlayback>>
    /\ outputData' = <<>>
    /\ outputSrc' = <<>>
    /\ UNCHANGED <<streamVars, framesSinceLoad>>

(* ---------------------------- getPeakLevel ----------------------------- *)
\* The value getPeakLevel(index) returns.
PeakLevelResult_OffByOne(detectors, numChannels, index) ==
    IF ~detectors.alloc THEN NotStarted
    ELSE IF index < 0 \/ index > numChannels THEN OutOfRange
    ELSE IF index + 1 \in DOMAIN detectors.levels
         THEN detectors.levels[index + 1] ELSE Garbage
PeakLevelResult(detectors, numChannels, index) ==
    IF ~detectors.alloc THEN NotStarted
    ELSE IF index < 0 \/ index >= numChannels THEN OutOfRange
    ELSE IF index + 1 \in DOMAIN detectors.levels
         THEN detectors.levels[index + 1] ELSE Garbage

PeakIndices == -1..2

GetPeakLevel(index) ==
    /\ call' = [op |-> "getPeakLevel", arg |-> index,
                ret |-> PeakLevelResult(mPeakDetectors, mNumInputChannels, index)]
    /\ outputData' = <<>>
    /\ outputSrc' = <<>>
    /\ UNCHANGED <<progVars, streamVars, started, totalIn, framesSinceLoad, session>>

\* getPlayedFrameCount() and getRecordedFrameCount(): atomic loads.
getPlayedFrameCount == mPlayedFrameCount
getRecordedFrameCount == mRecordedFrameCount

(* ----------------------- onBothStreamsReadyFloat ----------------------- *)
\* The test that selects the silence branch: no audio loaded.
NoClipLoaded(buffer, numFrames) == buffer = <<>> \/ numFrames = 0

\* memset(outputData, 0, numOutputFrames * outputChannelCount * sizeof(float)).
SilenceBlock_FramesOnly(n, d) ==
    [i \in 1..n |-> [c \in 1..d |-> IF (i - 1) * d + c <= n THEN 0 ELSE Garbage]]
SilenceBlock(n, d) == [i \in 1..n |-> SilenceFrame(d)]

\* The end-of-clip test at the top of the copy loop.
AtClipEnd_OffByOne(pos, numFrames) == pos > numFrames
AtClipEnd(pos, numFrames) == pos >= numFrames

\* The silence that fills the rest of the request once a non-looping clip ended.
SilenceTail_OneShort(n, framesWritten, d) ==
    [i \in 1..(n - framesWritten) |->
        IF i < n - framesWritten THEN SilenceFrame(d) ELSE [c \in 1..d |-> Garbage]]
SilenceTail(n, framesWritten, d) == [i \in 1..(n - framesWritten) |-> SilenceFrame(d)]

\* mPlaybackBuffer[index], index counted from 0.
ReadSample(buffer, index) ==
    IF index + 1 \in DOMAIN buffer THEN buffer[index + 1] ELSE Garbage

\* Copy one frame, handling channel conversion.
CopyFrame_NoOffsetScale(buffer, pos, srcChannels, d) ==
    [c \in 1..d |-> ReadSample(buffer, pos + ((c - 1) % srcChannels))]
CopyFrame(buffer, pos, srcChannels, d) ==
    [c \in 1..d |-> ReadSample(buffer, pos * srcChannels + ((c - 1) % srcChannels))]

\* mPlaybackPosition++ after a frame was copied.
AdvancePosition_BySamples(pos, srcChannels) == pos + srcChannels
AdvancePosition(pos, srcChannels) == pos + 1

\* mRecordedFrameCount++ once per input frame.
IncrementRecorded_PerSample(count, channels) == count + channels
IncrementRecorded(count, channels) == count + 1

\* The copy loop, from the state st = [fw, pos, out, src, rec, played] on.
RECURSIVE PlayLoop(_, _)
PlayLoop(n, st) ==
    IF st.fw >= n THEN st
    ELSE IF AtClipEnd(st.pos, mPlaybackNumFrames) /\ ~mLoopPlayback
    THEN [st EXCEPT !.out = @ \o SilenceTail(n, st.fw, outputChannelCount),
                    !.src = @ \o [i \in 1..(n - st.fw) |-> -1],
                    !.fw = n]
    ELSE LET pos == IF AtClipEnd(st.pos, mPlaybackNumFrames) THEN 0 ELSE st.pos
             frame == CopyFrame(mPlaybackBuffer, pos, mPlaybackChannelCount,
                                outputChannelCount)
         IN  PlayLoop(n, [fw |-> st.fw + 1,
                          pos |-> AdvancePosition(pos, mPlaybackChannelCount),
                          out |-> Append(st.out, frame),
                          src |-> Append(st.src, pos),
                          rec |-> IF st.rec.alloc THEN RecordingWrite(st.rec, frame)
                                  ELSE st.rec,
                          played |-> st.played + 1])

\* Process output (playback): the silence branch or the copy loop.
ProcessOutput(n) ==
    IF NoClipLoaded(mPlaybackBuffer, mPlaybackNumFrames)
    THEN [fw |-> 0, pos |-> mPlaybackPosition,
          out |-> SilenceBlock(n, outputChannelCount),
          src |-> [i \in 1..n |-> -1],
          rec |-> mPlayedRecording, played |-> mPlayedFrameCount]
    ELSE PlayLoop(n, [fw |-> 0, pos |-> mPlaybackPosition, out |-> <<>>, src |-> <<>>,
                      rec |-> mPlayedRecording, played |-> mPlayedFrameCount])

\* Update peak detectors with one input frame.
UpdateDetectors(detectors, frame) ==
    [detectors EXCEPT !.levels =
        [c \in DOMAIN detectors.levels |->
            IF c <= inputChannelCount /\ c <= mNumInputChannels
            THEN PeakProcess(detectors.levels[c], frame[c])
            ELSE detectors.levels[c]]]

\* Process input (recording from microphone), from st = [i, rec, det, recorded] on.
RECURSIVE InputLoop(_, _, _)
InputLoop(inputData, numInputFrames, st) ==
    IF st.i >= numInputFrames THEN st
    ELSE LET frame == inputData[st.i + 1]
         IN  InputLoop(inputData, numInputFrames,
                 [i |-> st.i + 1,
                  rec |-> IF st.rec.alloc THEN RecordingWrite(st.rec, frame) ELSE st.rec,
                  det |-> UpdateDetectors(st.det, frame),
                  recorded |-> IncrementRecorded(st.recorded, inputChannelCount)])

\* Input blocks: channel c of a frame carries base * c, base drawn from a small set.
InputBases == {-4}
InputFrame(base, d) == [c \in 1..d |-> base * c]
InputBlocks(n, d) == [1..n -> {InputFrame(b, d) : b \in InputBases}]

\* return oboe::DataCallbackResult::Continue.
CallbackResult_StopAtClipEnd(pos, numFrames, loop) ==
    IF numFrames > 0 /\ pos >= numFrames /\ ~loop THEN Continue + 1 ELSE Continue
CallbackResult(pos, numFrames, loop) == Continue

\* The session kind after a callback that played frames with the loop flag at loop.
SessionAfter(kind, loop) ==
    CASE kind = "fresh" -> IF loop THEN "looping" ELSE "oneshot"
      [] kind = "looping" -> IF loop THEN "looping" ELSE "mixed"
      [] kind = "oneshot" -> IF loop THEN "mixed" ELSE "oneshot"
      [] OTHER -> "mixed"

OnBothStreamsReadyFloat(inputData, numInputFrames, numOutputFrames) ==
    /\ mPlayedFrameCount + numOutputFrames <= MaxTotalOut
    /\ framesSinceLoad + numOutputFrames <= MaxTotalOut
    /\ mRecordedFrameCount + numInputFrames <= MaxTotalIn
    /\ LET play == ProcessOutput(numOutputFrames)
           inp == InputLoop(inputData, numInputFrames,
                            [i |-> 0, rec |-> mRecordedRecording,
                             det |-> mPeakDetectors, recorded |-> mRecordedFrameCount])
       IN  /\ outputData' = play.out
           /\ outputSrc' = play.src
           /\ mPlaybackPosition' = play.pos
           /\ mPlayedRecording' = play.rec
           /\ mPlayedFrameCount' = play.played
           /\ mRecordedRecording' = inp.rec
           /\ mPeakDetectors' = inp.det
           /\ mRecordedFrameCount' = inp.recorded
    /\ call' = [op |-> "onBothStreamsReadyFloat", arg |-> 0,
                ret |-> CallbackResult(ProcessOutput(numOutputFrames).pos,
                                       mPlaybackNumFrames, mLoopPlayback)]
    /\ IF numOutputFrames > 0 /\ mPlaybackBuffer # <<>>
       THEN /\ framesSinceLoad' = framesSinceLoad + numOutputFrames
            /\ session' = SessionAfter(session, mLoopPlayback)
       ELSE UNCHANGED <<framesSinceLoad, session>>
    /\ totalIn' = totalIn + numInputFrames
    /\ UNCHANGED <<mPlaybackBuffer, mPlaybackNumFrames, mPlaybackChannelCount,
                   mPlaybackSampleRate, mLoopPlayback, mNumInputChannels>>
    /\ UNCHANGED <<streamVars, started>>

(* ------------- loadAudioData against the running callback -------------- *)
\* Neither thread is inside an operation; no frame copy has read the buffer.
IdleLoader ==
    [pc |-> "idle",
     in |-> [audioData |-> NullData, numFrames |-> 0, channelCount |-> 0,
             sampleRate |-> 0],
     old |-> [buffer |-> <<>>, numFrames |-> 0, channelCount |-> 1]]
IdleCallback == [pc |-> "idle", numOutputFrames |-> 0]
NoRead == [lo |-> 0, hi |-> -1, len |-> 0]

\* What a read outside the buffer can yield when it does not fault: memory
\* that happens to hold 0.0, or anything else.
OutOfBoundsValues == {0, Garbage}

\* mPlaybackBuffer.resize(totalSamples): the samples below the new size are
\* kept, new elements are value-initialised to 0.
ResizedBuffer(buffer, totalSamples) ==
    [i \in 1..(IF totalSamples > 0 THEN totalSamples ELSE 0) |->
        IF i <= Len(buffer) THEN buffer[i] ELSE 0]

\* Entry of loadAudioData: the argument check.
LoadCheckArgs(in) ==
    /\ loader.pc = "idle"
    /\ callback.pc # "crashed"
    /\ IF InvalidLoadArgs(in.audioData, in.numFrames, in.channelCount)
       THEN /\ call' = [op |-> "loadAudioData", arg |-> 0, ret |-> -1]
            /\ UNCHANGED loader
       ELSE /\ loader' = [pc |-> "resize", in |-> in,
                          old |-> [buffer |-> mPlaybackBuffer,
                                   numFrames |-> mPlaybackNumFrames,
                                   channelCount |-> mPlaybackChannelCount]]
            /\ UNCHANGED call
    /\ UNCHANGED <<progVars, streamVars, outputData, outputSrc, started, totalIn,
                   framesSinceLoad, session, callback, lastRead>>

\* One statement of loadAudioData after the check.
LoadResize ==
    /\ loader.pc = "resize"
    /\ callback.pc # "crashed"
    /\ mPlaybackBuffer' =
         ResizedBuffer(mPlaybackBuffer, loader.in.numFrames * loader.in.channelCount)
    /\ loader' = [loader EXCEPT !.pc = "memcpy"]
    /\ UNCHANGED <<mPlaybackPosition, mPlaybackNumFrames, mPlaybackChannelCount,
                   mPlaybackSampleRate, mLoopPlayback, mPlayedFrameCount,
                   mRecordedFrameCount, mPlayedRecording, mRecordedRecording,
                   mNumInputChannels, mPeakDetectors>>
    /\ UNCHANGED <<streamVars, obsVars, callback, lastRead>>

LoadMemcpy ==
    /\ loader.pc = "memcpy"
    /\ callback.pc # "crashed"
    /\ mPlaybackBuffer' =
         LoadedBuffer(loader.in.audioData, loader.in.numFrames * loader.in.channelCount)
    /\ loader' = [loader EXCEPT !.pc = "setNumFrames"]
    /\ UNCHANGED <<mPlaybackPosition, mPlaybackNumFrames, mPlaybackChannelCount,
                   mPlaybackSampleRate, mLoopPlayback, mPlayedFrameCount,
                   mRecordedFrameCount, mPlayedRecording, mRecordedRecording,
                   mNumInputChannels, mPeakDetectors>>
    /\ UNCHANGED <<streamVars, obsVars, callback, lastRead>>

LoadSetNumFrames ==
    /\ loader.pc = "setNumFrames"
    /\ callback.pc # "crashed"
    /\ mPlaybackNumFrames' = loader.in.numFrames
    /\ loader' = [loader EXCEPT !.pc = "setChannelCount"]
    /\ UNCHANGED <<mPlaybackBuffer, mPlaybackPosition, mPlaybackChannelCount,
                   mPlaybackSampleRate, mLoopPlayback, mPlayedFrameCount,
                   mRecordedFrameCount, mPlayedRecording, mRecordedRecording,
                   mNumInputChannels, mPeakDetectors>>
    /\ UNCHANGED <<streamVars, obsVars, callback, lastRead>>

LoadSetChannelCount ==
    /\ loader.pc = "setChannelCount"
    /\ callback.pc # "crashed"
    /\ mPlaybackChannelCount' = loader.in.channelCount
    /\ loader' = [loader EXCEPT !.pc = "setSampleRate"]
    /\ UNCHANGED <<mPlaybackBuffer, mPlaybackPosition, mPlaybackNumFrames,
                   mPlaybackSampleRate, mLoopPlayback, mPlayedFrameCount,
                   mRecordedFrameCount, mPlayedRecording, mRecordedRecording,
                   mNumInputChannels, mPeakDetectors>>
    /\ UNCHANGED <<streamVars, obsVars, callback, lastRead>>

LoadSetSampleRate ==
    /\ loader.pc = "setSampleRate"
    /\ callback.pc # "crashed"
    /\ mPlaybackSampleRate' = loader.in.sampleRate
    /\ loader' = [loader EXCEPT !.pc = "setPosition"]
    /\ UNCHANGED <<mPlaybackBuffer, mPlaybackPosition, mPlaybackNumFrames,
                   mPlaybackChannelCount, mLoopPlayback, mPlayedFrameCount,
                   mRecordedFrameCount, mPlayedRecording, mRecordedRecording,
                   mNumInputChannels, mPeakDetectors>>
    /\ UNCHANGED <<streamVars, obsVars, callback, lastRead>>

\* mPlaybackPosition = 0; return 0.
LoadSetPosition ==
    /\ loader.pc = "setPosition"
    /\ callback.pc # "crashed"
    /\ mPlaybackPosition' = CursorAfterLoad(mPlaybackPosition)
    /\ loader' = IdleLoader
    /\ call' = [op |-> "loadAudioData", arg |-> 0, ret |-> 0]
    /\ UNCHANGED <<mPlaybackBuffer, mPlaybackNumFrames, mPlaybackChannelCount,
                   mPlaybackSampleRate, mLoopPlayback, mPlayedFrameCount,
                   mRecordedFrameCount, mPlayedRecording, mRecordedRecording,
                   mNumInputChannels, mPeakDetectors>>
    /\ UNCHANGED <<streamVars, outputData, outputSrc, started, totalIn,
                   framesSinceLoad, session, callback, lastRead>>

\* The input loop and the return of the callback.
CallbackReturn(inputData, numInputFrames) ==
    LET inp == InputLoop(inputData, numInputFrames,
                         [i |-> 0, rec |-> mRecordedRecording,
                          det |-> mPeakDetectors, recorded |-> mRecordedFrameCount])
    IN  /\ mRecordedRecording' = inp.rec
        /\ mPeakDetectors' = inp.det
        /\ mRecordedFrameCount' = inp.recorded
        /\ call' = [op |-> "onBothStreamsReadyFloat", arg |-> 0,
                    ret |-> CallbackResult(mPlaybackPosition, mPlaybackNumFrames,
                                           mLoopPlayback)]
        /\ callback' = IdleCallback

\* Entry of the callback: with no clip, the silence branch, the input loop and
\* the return (none of which reads the clip again); with a clip, into the copy
\* loop. Nothing reads inputData or numInputFrames before the input loop, so
\* with a clip they are drawn where the input loop runs.
CallbackEnter(inputData, numInputFrames, numOutputFrames) ==
    /\ callback.pc = "idle"
    /\ mPlayedFrameCount + numOutputFrames <= MaxRacePlayed
    /\ mRecordedFrameCount + numInputFrames <= MaxTotalIn
    /\ IF NoClipLoaded(mPlaybackBuffer, mPlaybackNumFrames)
       THEN /\ outputData' = SilenceBlock(numOutputFrames, outputChannelCount)
            /\ outputSrc' = [i \in 1..numOutputFrames |-> -1]
            /\ CallbackReturn(inputData, numInputFrames)
       ELSE /\ outputData' = <<>>
            /\ outputSrc' = <<>>
            /\ callback' = [pc |-> "loop", numOutputFrames |-> numOutputFrames]
            /\ UNCHANGED <<mRecordedRecording, mPeakDetectors, mRecordedFrameCount,
                           call>>
    /\ UNCHANGED <<mPlaybackBuffer, mPlaybackPosition, mPlaybackNumFrames,
                   mPlaybackChannelCount, mPlaybackSampleRate, mLoopPlayback,
                   mPlayedFrameCount, mPlayedRecording, mNumInputChannels>>
    /\ UNCHANGED <<streamVars, started, totalIn, framesSinceLoad, session, loader,
                   lastRead>>

\* The frame one iteration copies when some index it reads is outside the
\* buffer and the read does not fault: v stands where such a read landed.
FrameReadingOutside(buffer, pos, srcChannels, d, v) ==
    [c \in 1..d |->
        IF pos * srcChannels + ((c - 1) % srcChannels) + 1 \in DOMAIN buffer
        THEN buffer[pos * srcChannels + ((c - 1) % srcChannels) + 1]
        ELSE v]

\* One iteration of the copy loop, on the members as they are at this moment.
CallbackCopyFrame ==
    /\ callback.pc = "loop"
    /\ Len(outputData) < callback.numOutputFrames
    /\ IF AtClipEnd(mPlaybackPosition, mPlaybackNumFrames) /\ ~mLoopPlayback
       THEN /\ outputData' = outputData \o
                   SilenceTail(callback.numOutputFrames, Len(outputData),
                               outputChannelCount)
            /\ outputSrc' = outputSrc \o
                   [i \in 1..(callback.numOutputFrames - Len(outputData)) |-> -1]
            /\ UNCHANGED <<mPlaybackPosition, mPlayedFrameCount, mPlayedRecording,
                           callback, lastRead>>
       ELSE LET pos == IF AtClipEnd(mPlaybackPosition, mPlaybackNumFrames)
                       THEN 0 ELSE mPlaybackPosition
                lo == pos * mPlaybackChannelCount
                hi == lo + Min(outputChannelCount, mPlaybackChannelCount) - 1
            IN  /\ lastRead' = [lo |-> lo, hi |-> hi, len |-> Len(mPlaybackBuffer)]
                /\ IF hi < Len(mPlaybackBuffer)
                   THEN /\ outputData' = Append(outputData,
                               CopyFrame(mPlaybackBuffer, pos, mPlaybackChannelCount,
                                         outputChannelCount))
                        /\ callback' = callback
                   ELSE \* a read past the end of the vector: undefined behaviour
                        \/ /\ callback' = [callback EXCEPT !.pc = "crashed"]
                           /\ outputData' = Append(outputData,
                                  FrameReadingOutside(mPlaybackBuffer, pos,
                                      mPlaybackChannelCount, outputChannelCount,
                                      Garbage))
                        \/ /\ callback' = callback
                           /\ \E v \in OutOfBoundsValues :
                                 outputData' = Append(outputData,
                                     FrameReadingOutside(mPlaybackBuffer, pos,
                                         mPlaybackChannelCount, outputChannelCount, v))
                /\ outputSrc' = Append(outputSrc, pos)
                /\ mPlayedRecording' =
                     IF mPlayedRecording.alloc
                     THEN RecordingWrite(mPlayedRecording, outputData'[Len(outputData')])
                     ELSE mPlayedRecording
                /\ mPlaybackPosition' = AdvancePosition(pos, mPlaybackChannelCount)
                /\ mPlayedFrameCount' = mPlayedFrameCount + 1
    /\ UNCHANGED <<mPlaybackBuffer, mPlaybackNumFrames, mPlaybackChannelCount,
                   mPlaybackSampleRate, mLoopPlayback, mRecordedFrameCount,
                   mRecordedRecording, mNumInputChannels, mPeakDetectors>>
    /\ UNCHANGED <<streamVars, call, started, totalIn, framesSinceLoad, session,
                   loader>>

\* The copy loop is over: the input loop and the return.
CallbackLeave ==
    /\ callback.pc = "loop"
    /\ Len(outputData) >= callback.numOutputFrames
    /\ \E ni \in 0..MaxInputFrames :
          /\ mRecordedFrameCount + ni <= MaxTotalIn
          /\ \E inputData \in InputBlocks(ni, inputChannelCount) :
                CallbackReturn(inputData, ni)
    /\ UNCHANGED <<mPlaybackBuffer, mPlaybackPosition, mPlaybackNumFrames,
                   mPlaybackChannelCount, mPlaybackSampleRate, mLoopPlayback,
                   mPlayedFrameCount, mPlayedRecording, mNumInputChannels>>
    /\ UNCHANGED <<streamVars, outputData, outputSrc, started, totalIn,
                   framesSinceLoad, session, loader, lastRead>>

(* --------------------------- specification ----------------------------- *)
Init ==
    /\ mPlaybackBuffer = <<>>
    /\ mPlaybackPosition = 0
    /\ mPlaybackNumFrames = 0
    /\ mPlaybackChannelCount = 1
    /\ mPlaybackSampleRate = DefaultSampleRate
    /\ mLoopPlayback = TRUE
    /\ mPlayedFrameCount = 0
    /\ mRecordedFrameCount = 0
    /\ mPlayedRecording = NullRecording
    /\ mRecordedRecording = NullRecording
    /\ mNumInputChannels = 0
    /\ mPeakDetectors = NullDetectors
    /\ \E cc \in StreamChannelCounts :
          /\ outputChannelCount = cc[1]
          /\ inputChannelCount = cc[2]
    /\ outputSampleRate \in StreamSampleRates
    /\ inputSampleRate \in StreamSampleRates
    /\ call = [op |-> "construct", arg |-> 0, ret |-> 0]
    /\ outputData = <<>>
    /\ outputSrc = <<>>
    /\ started = FALSE
    /\ totalIn = 0
    /\ framesSinceLoad = 0
    /\ session = "fresh"
    /\ loader = IdleLoader
    /\ callback = IdleCallback
    /\ lastRead = NoRead

Callback ==
    \E no \in 0..MaxOutputFrames, ni \in 0..MaxInputFrames :
        \E inputData \in InputBlocks(ni, inputChannelCount) :
            OnBothStreamsReadyFloat(inputData, ni, no)

Next ==
    \/ Start /\ UNCHANGED raceVars
    \/ (\E in \in LoadInputs : LoadAudioData(in)) /\ UNCHANGED raceVars
    \/ (\E loop \in BOOLEAN : SetLoopPlayback(loop)) /\ UNCHANGED raceVars
    \/ (\E index \in PeakIndices : GetPeakLevel(index)) /\ UNCHANGED raceVars
    \/ Callback /\ UNCHANGED raceVars

Spec == Init /\ [][Next]_vars

\* The control thread inside loadAudioData and the audio thread inside the
\* callback, their steps interleaved in every order.
NextRace ==
    \/ \E in \in LoadInputs : LoadCheckArgs(in)
    \/ LoadResize
    \/ LoadMemcpy
    \/ LoadSetNumFrames
    \/ LoadSetChannelCount
    \/ LoadSetSampleRate
    \/ LoadSetPosition
    \/ \E no \in 0..MaxRaceOutputFrames, ni \in 0..MaxInputFrames :
          \E inputData \in InputBlocks(ni, inputChannelCount) :
              CallbackEnter(inputData, ni, no)
    \/ CallbackCopyFrame
    \/ CallbackLeave

SpecRace == Init /\ [][NextRace]_vars

(* ------------------------------ claims --------------------------------- *)
\* What the claims call clip frame f after channel conversion: destination
\* channel c (from 0) carries source channel c mod srcChannels of frame f.
ExpectedFrame(buffer, srcChannels, d, f) ==
    [c \in 1..d |-> buffer[f * srcChannels + ((c - 1) % srcChannels) + 1]]
ZeroFrame == [c \in 1..outputChannelCount |-> 0]
IsCallback == call.op = "onBothStreamsReadyFloat"
\* A step that is one onBothStreamsReadyFloat call with these frame counts.
CallbackStep(ni, no) ==
    \E inputData \in InputBlocks(ni, inputChannelCount) :
        OnBothStreamsReadyFloat(inputData, ni, no)
\* The index, counted since loadAudioData, of frame k of the last output block.
FrameIndex(k) == framesSinceLoad - Len(outputData) + k - 1

\* C1: with looping enabled in every callback since loadAudioData, the j-th
\* output frame emitted since the load is clip frame (j mod F) after channel
\* conversion, however the frames are split into calls.
C1_LoopedFrames ==
    (IsCallback /\ session = "looping") =>
        /\ Len(outputData) <= framesSinceLoad
        /\ \A k \in 1..Len(outputData) :
              outputData[k] = ExpectedFrame(mPlaybackBuffer, mPlaybackChannelCount,
                                            outputChannelCount,
                                            FrameIndex(k) % mPlaybackNumFrames)
\* One call asked for 5 frames of a freshly loaded 2-frame clip: it wrapped twice.
C1_Witness ==
    /\ IsCallback /\ session = "looping"
    /\ mPlaybackNumFrames = 2 /\ Len(outputData) = 5 /\ framesSinceLoad = 5

\* C2 as stated: with looping enabled, after N output frames since the load
\* the cursor equals N mod F (so 0 after exactly k*F frames).
C2_CursorIsNModF ==
    session = "looping" => mPlaybackPosition = framesSinceLoad % mPlaybackNumFrames
\* C2 amended: with looping enabled, after N >= 1 output frames since the load
\* the cursor equals ((N - 1) mod F) + 1: it is N mod F unless F divides N,
\* and then it is F, the wrap to 0 waiting for the next frame; right after the
\* load (N = 0) it is 0.
C2_CursorDefersWrap ==
    /\ session = "looping" =>
          /\ framesSinceLoad >= 1
          /\ mPlaybackPosition = ((framesSinceLoad - 1) % mPlaybackNumFrames) + 1
    /\ (session = "fresh" /\ mPlaybackBuffer # <<>>) => mPlaybackPosition = 0
\* Exactly 2F frames of a 2-frame clip were played: the cursor rests at F.
C2_Witness ==
    /\ IsCallback /\ session = "looping"
    /\ mPlaybackNumFrames = 2 /\ framesSinceLoad = 4 /\ mPlaybackPosition = 2

\* C3: after start(), every callback increments playedFrameCount by its
\* numOutputFrames, whatever the playback state.
C3_PlayedCountsEveryFrame ==
    [][(started /\ call'.op = "onBothStreamsReadyFloat") =>
          \A ni \in 0..MaxInputFrames, no \in 0..MaxOutputFrames :
              CallbackStep(ni, no) =>
                  mPlayedFrameCount' = mPlayedFrameCount + no]_vars

C5_SilenceWithoutClip ==
    [][(mPlaybackBuffer = <<>> /\ call'.op = "onBothStreamsReadyFloat") =>
          \A ni \in 0..MaxInputFrames, no \in 0..MaxOutputFrames :
              CallbackStep(ni, no) =>
                  /\ Len(outputData') = no
                  /\ \A k \in 1..no : outputData'[k] = ZeroFrame
                  /\ mPlaybackPosition' = mPlaybackPosition]_vars
C5_Witness ==
    /\ IsCallback /\ started /\ mPlaybackBuffer = <<>>
    /\ Len(outputData) >= 2

C7_ChannelConversion ==
    IsCallback =>
        /\ Len(outputSrc) = Len(outputData)
        /\ \A k \in 1..Len(outputData) :
              outputSrc[k] >= 0 =>
                  /\ \A c \in 0..(outputChannelCount - 1) :
                        outputData[k][c + 1] =
                            mPlaybackBuffer[outputSrc[k] * mPlaybackChannelCount
                                            + (c % mPlaybackChannelCount) + 1]
                  /\ mPlaybackChannelCount = 1 =>
                        \A c \in 1..outputChannelCount :
                            outputData[k][c] = mPlaybackBuffer[outputSrc[k] + 1]
\* Frame 1 of a 2-channel clip went into a 3-channel output.
C7_Witness ==
    /\ IsCallback /\ mPlaybackChannelCount = 2 /\ outputChannelCount = 3
    /\ \E k \in 1..Len(outputData) : outputSrc[k] = 1

\* C8: loadAudioData with a null audioData, numFrames <= 0 or channelCount <= 0
\* returns a negative code and changes nothing.
C8_InvalidLoadChangesNothing ==
    [][call'.op = "loadAudioData" =>
          \A in \in LoadInputs :
              ((in.audioData.null \/ in.numFrames <= 0 \/ in.channelCount <= 0)
                 /\ LoadAudioData(in)) =>
                  /\ call'.ret < 0
                  /\ UNCHANGED <<progVars, framesSinceLoad, session>>]_vars
\* An invalid load was refused in the middle of a clip.
C8_Witness ==
    /\ call.op = "loadAudioData" /\ call.ret < 0
    /\ mPlaybackBuffer # <<>> /\ mPlaybackPosition = 1 /\ mPlaybackNumFrames = 2
    /\ mPlayedFrameCount >= 1

\* C9: a valid loadAudioData returns 0, replaces the whole clip and sets the
\* cursor to 0; the next output frame is frame 0 of the new clip, and every
\* sample a callback emits is 0 or a sample of the clip now loaded.
C9_LoadReplacesClip ==
    [][/\ call'.op = "loadAudioData" =>
             \A in \in LoadInputs :
                 (~in.audioData.null /\ in.numFrames > 0 /\ in.channelCount > 0
                    /\ LoadAudioData(in)) =>
                     /\ call'.ret = 0
                     /\ mPlaybackBuffer' = in.audioData.samples
                     /\ mPlaybackNumFrames' = in.numFrames
                     /\ mPlaybackChannelCount' = in.channelCount
                     /\ mPlaybackPosition' = 0
       /\ (call'.op = "onBothStreamsReadyFloat" /\ mPlaybackBuffer # <<>>
             /\ framesSinceLoad = 0 /\ Len(outputData') >= 1) =>
                 outputData'[1] = ExpectedFrame(mPlaybackBuffer, mPlaybackChannelCount,
                                                outputChannelCount, 0)
       /\ call'.op = "onBothStreamsReadyFloat" =>
             \A k \in 1..Len(outputData') : \A c \in 1..outputChannelCount :
                 \/ outputData'[k][c] = 0
                 \/ \E i \in DOMAIN mPlaybackBuffer :
                       outputData'[k][c] = mPlaybackBuffer[i]]_vars
\* The first callback after a clip was loaded over one already partly played.
C9_Witness ==
    /\ IsCallback /\ mPlaybackBuffer # <<>>
    /\ framesSinceLoad = Len(outputData) /\ Len(outputData) >= 1
    /\ mPlayedFrameCount > framesSinceLoad
    /\ outputSrc[1] = 0

\* C10: getPeakLevel returns -1.0 for every index before the first start();
\* after start() it returns -2.0 exactly for index < 0 and index >=
\* inputChannelCount, and a level (>= 0) otherwise; -1.0 and -2.0 differ.
C10_PeakLevelSentinels ==
    /\ NotStarted # OutOfRange
    /\ call.op = "getPeakLevel" =>
          /\ ~started => call.ret = NotStarted
          /\ started =>
                /\ call.ret = OutOfRange <=>
                      (call.arg < 0 \/ call.arg >= inputChannelCount)
                /\ call.ret # OutOfRange => call.ret >= 0
\* getPeakLevel(inputChannelCount) after start().
C10_Witness ==
    /\ call.op = "getPeakLevel" /\ started
    /\ call.arg = inputChannelCount /\ call.ret = OutOfRange

\* C11: after start() and while the played recording is below capacity, a
\* callback appends every one of its numOutputFrames output frames to the
\* played recording, the all-zero frames emitted without a clip and the
\* silence fill after a non-looping clip has ended included.
C11_PlayedRecordingHasEveryFrame ==
    [][(started /\ call'.op = "onBothStreamsReadyFloat") =>
          \A ni \in 0..MaxInputFrames, no \in 0..MaxOutputFrames :
              (CallbackStep(ni, no)
                 /\ mPlayedRecording.frames + no <= mPlayedRecording.maxFrames) =>
                  mPlayedRecording'.frames = mPlayedRecording.frames + no]_vars

\* C12: setLoopPlayback changes no cursor value and emits no frame; a callback
\* that starts with the cursor p strictly inside the clip emits clip frames
\* p, p+1, ... up to the last one whatever the loop flag is; from the moment
\* the cursor is at frameCount the flag decides: set, the next frames are clip
\* frames 0, 1, ... (wrapping); clear, they are all-zero and the cursor stays.
C12_LoopFlagAtWrapOnly ==
    [][/\ call'.op = "setLoopPlayback" =>
             /\ UNCHANGED <<mPlaybackPosition, mPlaybackBuffer, mPlaybackNumFrames,
                            mPlaybackChannelCount>>
             /\ outputData' = <<>>
       /\ (call'.op = "onBothStreamsReadyFloat"
             /\ ~NoClipLoaded(mPlaybackBuffer, mPlaybackNumFrames)) =>
                     LET no == Len(outputData')    \* a callback fills numOutputFrames frames
                         F == mPlaybackNumFrames
                         p == mPlaybackPosition
                         head == IF p >= F THEN 0 ELSE Min(no, F - p)
                         Clip(f) == ExpectedFrame(mPlaybackBuffer, mPlaybackChannelCount,
                                                  outputChannelCount, f)
                     IN  /\ Len(outputSrc') = no
                         /\ \A k \in 1..head : outputData'[k] = Clip(p + k - 1)
                         /\ no <= head => mPlaybackPosition' = p + no
                         /\ (no > head /\ mLoopPlayback) =>
                               /\ \A k \in (head + 1)..no :
                                     outputData'[k] = Clip((k - head - 1) % F)
                               /\ mPlaybackPosition' = ((no - head - 1) % F) + 1
                         /\ (no > head /\ ~mLoopPlayback) =>
                               /\ \A k \in (head + 1)..no : outputData'[k] = ZeroFrame
                               /\ mPlaybackPosition' = F]_vars
\* start() was never called, silence was emitted since the load (the clip had
\* ended with looping disabled), looping was then enabled, and this callback
\* resumed from frame 0 with no silence.
C12_Witness ==
    /\ IsCallback /\ ~started /\ mLoopPlayback
    /\ mPlayedFrameCount < framesSinceLoad
    /\ Len(outputData) >= 1 /\ outputSrc[1] = 0
    /\ \A k \in 1..Len(outputSrc) : outputSrc[k] >= 0

\* C13: onBothStreamsReadyFloat returns Continue, whatever the state and the
\* request.
C13_AlwaysContinue ==
    IsCallback => call.ret = Continue
\* Before any start() (recordings absent), a callback ran past the end of a
\* non-looping clip and filled the rest with silence.
C13_Witness ==
    /\ IsCallback /\ ~started /\ ~mPlayedRecording.alloc
    /\ ~mLoopPlayback /\ mPlaybackBuffer # <<>>
    /\ mPlaybackPosition = mPlaybackNumFrames
    /\ Len(outputData) >= 1 /\ outputSrc[Len(outputSrc)] = -1

\* C14 (under SpecRace): with loadAudioData interleaved statement by statement
\* with the callback, every index a frame copy reads lies inside the playback
\* buffer as it is at that moment: 0 <= index < buffer length.
C14_ReadsInBounds ==
    0 <= lastRead.lo /\ lastRead.hi < lastRead.len

\* The frames of a clip as a callback emits them into this output stream.
FramesOfClip(buffer, numFrames, channelCount) ==
    { ExpectedFrame(buffer, channelCount, outputChannelCount, f) :
        f \in 0..(numFrames - 1) }
\* C15 (under SpecRace): every frame a frame copy emits from inside the buffer
\* is a frame of one clip: of the clip loaded, or, while loadAudioData is
\* running, of the clip it found on entry or of the clip it is loading.
C15_NoTornFrame ==
    [][(callback.pc = "loop" /\ Len(outputData') = Len(outputData) + 1
          /\ outputSrc'[Len(outputSrc')] >= 0
          /\ lastRead'.hi < lastRead'.len) =>
            outputData'[Len(outputData')] \in
                IF loader.pc = "idle"
                THEN FramesOfClip(mPlaybackBuffer, mPlaybackNumFrames,
                                  mPlaybackChannelCount)
                ELSE FramesOfClip(loader.old.buffer, loader.old.numFrames,
                                  loader.old.channelCount)
                     \cup FramesOfClip(loader.in.audioData.samples,
                                       loader.in.numFrames,
                                       loader.in.channelCount)]_vars

\* C16: with no start() in between, getPlayedFrameCount() and
\* getRecordedFrameCount() never decrease from one operation to the next.
C16_CountersMonotonic ==
    [][call'.op # "start" =>
          /\ getPlayedFrameCount' >= getPlayedFrameCount
          /\ getRecordedFrameCount' >= getRecordedFrameCount]_vars
\* Both counters kept growing over a loadAudioData: more frames were played in
\* all than were asked of the clip now loaded.
C16_Witness ==
    /\ IsCallback /\ started
    /\ mPlayedFrameCount >= 3 /\ mPlayedFrameCount > framesSinceLoad
    /\ framesSinceLoad >= 1 /\ mRecordedFrameCount >= 1

\* C17: a successful loadAudioData leaves playedFrameCount, recordedFrameCount,
\* the loop flag, both recordings, the peak detectors and the input channel
\* count unchanged, before and after start().
C17_LoadFrame ==
    [][(call'.op = "loadAudioData" /\ call'.ret = 0) =>
          UNCHANGED <<mPlayedFrameCount, mRecordedFrameCount, mLoopPlayback,
                      mPlayedRecording, mRecordedRecording, mPeakDetectors,
                      mNumInputChannels>>]_vars
\* A load succeeded after start() with frames played and recorded, a peak
\* level measured and looping disabled: all of it is still there.
C17_Witness ==
    /\ call.op = "loadAudioData" /\ call.ret = 0 /\ started
    /\ mPlayedFrameCount >= 1 /\ mRecordedFrameCount >= 1
    /\ mPlayedRecording.frames >= 1 /\ mRecordedRecording.frames >= 1
    /\ ~mLoopPlayback /\ mPeakDetectors.levels[1] > 0

\* C18: start() sets both counters and the cursor to 0 and the detector count
\* to the input stream's channel count, and leaves the clip and the loop flag
\* unchanged; the first callback after it plays the loaded clip from frame 0.
C18_StartFrame ==
    [][/\ call'.op = "start" =>
             /\ mPlayedFrameCount' = 0
             /\ mRecordedFrameCount' = 0
             /\ mPlaybackPosition' = 0
             /\ mNumInputChannels' = inputChannelCount
             /\ Len(mPeakDetectors'.levels) = inputChannelCount
             /\ UNCHANGED <<mPlaybackBuffer, mPlaybackNumFrames,
                            mPlaybackChannelCount, mLoopPlayback>>
       /\ (call.op = "start" /\ call'.op = "onBothStreamsReadyFloat"
             /\ mPlaybackBuffer # <<>> /\ Len(outputData') >= 1) =>
                 outputData'[1] = ExpectedFrame(mPlaybackBuffer, mPlaybackChannelCount,
                                                outputChannelCount, 0)]_vars
\* A restart: frames had been asked of the clip, start() rewound the cursor,
\* and this callback, with looping disabled, played from frame 0 again.
C18_Witness ==
    /\ IsCallback /\ started /\ ~mLoopPlayback
    /\ Len(outputData) >= 1 /\ outputSrc[1] = 0
    /\ mPlayedFrameCount <= Len(outputData)
    /\ framesSinceLoad > Len(outputData)

\* C19: after complete operations 0 <= cursor <= frameCount of the clip now
\* loaded, and every clip frame index a callback read is in 0..frameCount-1.
C19_CursorBound ==
    /\ 0 <= mPlaybackPosition /\ mPlaybackPosition <= mPlaybackNumFrames
    /\ IsCallback =>
          \A k \in 1..Len(outputSrc) :
              outputSrc[k] # -1 =>
                  (0 <= outputSrc[k] /\ outputSrc[k] < mPlaybackNumFrames)
\* The cursor rests on its upper bound after the last frame of a 2-frame clip
\* was read.
C19_Witness ==
    /\ IsCallback /\ mPlaybackNumFrames = 2 /\ mPlaybackPosition = 2
    /\ Len(outputSrc) >= 1 /\ outputSrc[Len(outputSrc)] = 1

\* The detector array covers the detector count, and is absent only while the
\* count is 0.
DetectorsCoverCount ==
    /\ mNumInputChannels > 0 =>
          (mPeakDetectors.alloc /\ Len(mPeakDetectors.levels) >= mNumInputChannels)
    /\ ~mPeakDetectors.alloc => mNumInputChannels = 0
\* C20: in every state reached by complete operations the detector array
\* covers the detector count; a callback before the first start() finds the
\* count 0 and both recordings absent, touches none of them, fills the whole
\* output block, counts every input frame and every clip frame it copied.
C20_NoUnallocatedAccess ==
    /\ DetectorsCoverCount
    /\ [][/\ DetectorsCoverCount'
          /\ (~started /\ call'.op = "onBothStreamsReadyFloat") =>
                \A ni \in 0..MaxInputFrames, no \in 0..MaxOutputFrames :
                    CallbackStep(ni, no) =>
                        /\ Min(inputChannelCount, mNumInputChannels) = 0
                        /\ ~mPeakDetectors.alloc
                        /\ ~mPlayedRecording.alloc /\ ~mRecordedRecording.alloc
                        /\ UNCHANGED <<mPeakDetectors, mPlayedRecording,
                                       mRecordedRecording>>
                        /\ Len(outputData') = no
                        /\ mRecordedFrameCount' = mRecordedFrameCount + ni
                        /\ mPlayedFrameCount' = mPlayedFrameCount
                              + Cardinality({k \in 1..no : outputSrc'[k] >= 0})]_vars
\* Before any start(), a callback played a clip frame and counted an input frame.
C20_Witness ==
    /\ IsCallback /\ ~started /\ ~mPeakDetectors.alloc
    /\ Len(outputData) >= 1 /\ outputSrc[1] >= 0
    /\ mPlayedFrameCount >= 1 /\ mRecordedFrameCount >= 1

====
